---- MODULE Spec2Model ----
(***************************************************************************)
(* Model of the indexed ring buffer of src/terminal/ringbuffer.rs          *)
(* (Ringbuffer<N>, its iterator Iter) as a state machine.                  *)
(*                                                                         *)
(* The arena `buffer` is a sequence of N bytes; arena offset o is kept at  *)
(* sequence position o + 1.  `line_pointers` is the ArrayDeque of record   *)
(* start offsets, oldest first.  All offsets are usize values; every       *)
(* subtraction of the source is on operands for which it cannot underflow  *)
(* (wp < N, skipped <= N, free >= 1 before the final - 1).                 *)
(*                                                                         *)
(* The callers of the buffer use try_add, add and pop; wrap_wp is the      *)
(* helper try_add calls before it stores a record.  element, iter and      *)
(* reverse_iter only read the buffer and are operators on its state.       *)
(*                                                                         *)
(* The terminal of src/terminal.rs is modelled on top of it: SpecView      *)
(* steps TerminalView::write_string through its loop over the buffer, and  *)
(* SpecRender runs TerminalView::render (RenderEngine::render_all with     *)
(* Cursor and Display::set_draw_area / draw of src/display.rs) over the    *)
(* records an iterator yields, logging every call made on the display      *)
(* interface.                                                              *)
(* SpecCursor runs the operations of Cursor on their own, and              *)
(* SpecTerminal runs write_string, set_scroll_offset and render on one     *)
(* view, render reading the records from the buffer.                       *)
(***************************************************************************)
EXTENDS Integers, Sequences, FiniteSets, TLC

\* capacity of the arena, the type parameter N of Ringbuffer<N>
\* (U8 in the tests of ringbuffer.rs)
N == 8

\* capacity of the record index line_pointers; the source's ArrayDeque holds
\* 16 entries, the model's holds K, which keeps K < N as in the terminal
K == 3

\* the byte sequences handed to add / try_add: every length 0..N (a
\* sequence of N bytes is more than the buffer can ever hold), each byte 1
Inputs == { [k \in 1..l |-> 1] : l \in 0..N }

VARIABLES
    buffer,         \* Ringbuffer::buffer, the arena
    line_pointers,  \* Ringbuffer::line_pointers
    wp,             \* Ringbuffer::wp
    skipped,        \* Ringbuffer::skipped
    stored,         \* history: the bytes passed to the call that created each
                    \* live record, oldest first
    pc,             \* TerminalView::write_string: where the call in progress
                    \* stands ("idle": no call made yet, "done": returned)
    text,           \* TerminalView::write_string: the argument s of the
                    \* call in progress or of the last call, as bytes
    ws_free,        \* TerminalView::write_string: its local variable free
    lines,          \* TerminalView::render: the records the iterator handed
                    \* to render_all yields, in the order it yields them
    cursor,         \* RenderEngine::cursor (col, row)
    sink,           \* the calls the last render pass made on the interface
                    \* of the display, in order
    result,         \* what the last RenderEngine::render_all returned
    returned,       \* what the last TerminalView::render returned
    scroll_offset   \* TerminalView::scroll_offset

vars == <<buffer, line_pointers, wp, skipped, stored, pc, text, ws_free,
          lines, cursor, sink, result, returned, scroll_offset>>

\* the state of the render engine and of a render pass, and the scroll
\* offset of the view
renderVars == <<lines, cursor, sink, result, returned, scroll_offset>>

\* the state of a write_string call
viewVars == <<pc, text, ws_free>>

\* the Ringbuffer value the methods take as self
Self == [buffer |-> buffer, line_pointers |-> line_pointers,
         wp |-> wp, skipped |-> skipped]

max(a, b) == IF a >= b THEN a ELSE b

\* Ringbuffer::new
new == [buffer |-> [k \in 1..N |-> 0], line_pointers |-> <<>>,
        wp |-> 0, skipped |-> 0]

\* line_pointers.front(), with the None => 0 arm of free and wrap_wp
first_index(self) ==
    IF Len(self.line_pointers) > 0 THEN Head(self.line_pointers) ELSE 0

\* free that counts only the gap between wp and the end of the arena
free_tail_only(self) ==
    LET fi == first_index(self)
        fr == IF self.wp >= fi THEN N - self.wp ELSE fi - self.wp
    IN  fr - 1

\* free without the reserved byte
free_no_reserve(self) ==
    LET fi == first_index(self)
    IN  IF self.wp >= fi THEN max(N - self.wp, fi) ELSE fi - self.wp

\* free that takes the layout for unwrapped whatever wp is
free_unwrapped(self) ==
    LET fi == first_index(self)
    IN  max(N - self.wp, fi) - 1

\* Ringbuffer::free
free(self) ==
    LET fi == first_index(self)
        fr == IF self.wp >= fi THEN max(N - self.wp, fi) ELSE fi - self.wp
    IN  fr - 1

\* wrap_wp that jumps to offset 0 without recording the abandoned tail bytes
wrap_wp_no_skipped(self, size) ==
    LET fi == first_index(self) IN
    IF self.wp >= fi
    THEN IF N - self.wp - 1 >= size
         THEN self
         ELSE [self EXCEPT !.wp = 0]
    ELSE self

\* wrap_wp that keeps wp when the record fills the tail up to the last byte
wrap_wp_full_tail(self, size) ==
    LET fi == first_index(self) IN
    IF self.wp >= fi
    THEN IF N - self.wp >= size
         THEN self
         ELSE [self EXCEPT !.skipped = N - self.wp, !.wp = 0]
    ELSE self

\* Ringbuffer::wrap_wp
wrap_wp(self, size) ==
    LET fi == first_index(self) IN
    IF self.wp >= fi
    THEN IF N - self.wp - 1 >= size
         THEN self
         ELSE [self EXCEPT !.skipped = N - self.wp, !.wp = 0]
    ELSE self

\* the copy loop of try_add: buffer[wp] = b; wp += 1; wp %= N
RECURSIVE write_bytes(_, _, _)
write_bytes(self, bytes, k) ==
    IF k > Len(bytes) THEN self
    ELSE write_bytes([self EXCEPT !.buffer[self.wp + 1] = bytes[k],
                                  !.wp = (self.wp + 1) % N],
                     bytes, k + 1)

\* try_add that also refuses a record of exactly free() bytes
try_add_strict(self, bytes) ==
    IF Len(bytes) >= free(self)
    THEN [self |-> self, ok |-> FALSE]
    ELSE LET w == wrap_wp(self, Len(bytes)) IN
         IF Len(w.line_pointers) < K
         THEN [self |-> write_bytes(
                            [w EXCEPT !.line_pointers = Append(@, w.wp)],
                            bytes, 1),
               ok |-> TRUE]
         ELSE [self |-> w, ok |-> FALSE]

\* Ringbuffer::try_add; ok = FALSE is Err(Error::NoSpace)
try_add(self, bytes) ==
    IF Len(bytes) > free(self)
    THEN [self |-> self, ok |-> FALSE]
    ELSE LET w == wrap_wp(self, Len(bytes)) IN
         IF Len(w.line_pointers) < K
         THEN [self |-> write_bytes(
                            [w EXCEPT !.line_pointers = Append(@, w.wp)],
                            bytes, 1),
               ok |-> TRUE]
         ELSE [self |-> w, ok |-> FALSE]

\* pop that leaves wp where it is when the index becomes empty
pop_keep_wp(self) ==
    LET lp == self.line_pointers IN
    IF Len(lp) > 0
    THEN LET i    == Head(lp)
             rest == Tail(lp)
             j    == IF Len(rest) > 0 THEN Head(rest) ELSE i
         IN  [self   |-> [self EXCEPT !.line_pointers = rest,
                                      !.skipped = IF j < i THEN 0 ELSE @],
              popped |-> TRUE]
    ELSE [self |-> self, popped |-> FALSE]

\* pop that forgets the abandoned tail bytes on every call
pop_reset_skipped(self) ==
    LET lp == self.line_pointers IN
    IF Len(lp) > 0
    THEN LET rest == Tail(lp)
             s1   == [self EXCEPT !.line_pointers = rest, !.skipped = 0]
         IN  [self   |-> IF Len(rest) = 0 THEN [s1 EXCEPT !.wp = 0] ELSE s1,
              popped |-> TRUE]
    ELSE [self |-> [self EXCEPT !.wp = 0], popped |-> FALSE]

\* Ringbuffer::pop
pop(self) ==
    LET lp == self.line_pointers IN
    IF Len(lp) > 0
    THEN LET i    == Head(lp)
             rest == Tail(lp)
             j    == IF Len(rest) > 0 THEN Head(rest) ELSE i
             s1   == [self EXCEPT !.line_pointers = rest,
                                  !.skipped = IF j < i THEN 0 ELSE @]
         IN  [self   |-> IF Len(rest) = 0 THEN [s1 EXCEPT !.wp = 0] ELSE s1,
              popped |-> TRUE]
    ELSE [self |-> [self EXCEPT !.wp = 0], popped |-> FALSE]

\* Ringbuffer::add: the retry loop; pops counts the records it evicted,
\* ok tells whether the last try_add succeeded
RECURSIVE add_loop(_, _, _)
add_loop(self, bytes, pops) ==
    LET r == try_add(self, bytes) IN
    IF r.ok
    THEN [self |-> r.self, ok |-> TRUE, pops |-> pops, tries |-> pops + 1]
    ELSE LET p == pop(r.self) IN
         IF ~p.popped
         THEN [self |-> p.self, ok |-> FALSE, pops |-> pops,
               tries |-> pops + 1]
         ELSE add_loop(p.self, bytes, pops + 1)

\* add that gives up after the first refusal instead of evicting
add_once(self, bytes) ==
    LET r == try_add(self, bytes) IN
    [self |-> r.self, ok |-> r.ok, pops |-> 0, tries |-> 1]

\* add that calls try_add once more after pop has found nothing to remove
add_retry_empty(self, bytes) ==
    LET r == add_loop(self, bytes, 0) IN
    IF r.ok THEN r
    ELSE LET t == try_add(r.self, bytes) IN
         [self |-> t.self, ok |-> t.ok, pops |-> r.pops,
          tries |-> r.tries + 1]

\* Ringbuffer::add: the buffer after the call, whether the bytes were
\* stored, the records popped and the calls of try_add made
add(self, bytes) == add_loop(self, bytes, 0)

\* &buffer[start..end]
Slice(buf, start, end) == [k \in 1..(end - start) |-> buf[start + k]]

NoneItem  == [kind |-> "None",  start |-> 0, end |-> 0, bytes |-> <<>>]
PanicItem == [kind |-> "Panic", start |-> 0, end |-> 0, bytes |-> <<>>]
SomeItem(start, end, bytes) ==
    [kind |-> "Some", start |-> start, end |-> end, bytes |-> bytes]

\* element_end that looks at the next record's start before it looks at wp
element_end_next_first(self, index) ==
    LET lp    == self.line_pointers
        start == lp[index + 1]
    IN  IF Len(lp) > index + 1 THEN lp[index + 2]
        ELSE IF self.wp < start THEN N - self.skipped
        ELSE self.wp

\* the end offset element computes for the record at index (index < len)
element_end(self, index) ==
    LET lp    == self.line_pointers
        start == lp[index + 1]
    IN  IF self.wp < start THEN N - self.skipped
        ELSE IF Len(lp) <= index + 1 THEN self.wp
        ELSE lp[index + 2]

\* Ringbuffer::element.  line_pointers[index] panics for index >= len,
\* &buffer[start..end] panics for start > end or end > N.
element(self, index) ==
    LET lp  == self.line_pointers
        len == Len(lp)
    IN
    IF len = 0 \/ index > len THEN NoneItem
    ELSE IF index >= len THEN PanicItem
    ELSE LET start == lp[index + 1]
             end   == element_end(self, index)
         IN  IF start > end \/ end > N THEN PanicItem
             ELSE SomeItem(start, end, Slice(self.buffer, start, end))

\* a usize offset of 32 bits, kept as its two 16-bit halves
Usize(v) == [hi |-> v \div 65536, lo |-> v % 65536]

\* `offset as i32`: the 32 bits read as two's complement
AsI32(u) ==
    IF u.hi >= 32768 THEN (u.hi - 65536) * 65536 + u.lo
    ELSE u.hi * 65536 + u.lo

\* a - b on i32: ovf tells whether the exact difference leaves the i32
\* range (a panic when overflow checks are compiled in), val is the
\* difference wrapped to 32 bits (the result when they are not)
SubI32(a, b) ==
    IF b < 0 /\ a > 2147483647 + b
    THEN [ovf |-> TRUE,
          val |-> (((a - 2147483647) - 1) - (b + 2147483647)) - 1]
    ELSE IF b > 0 /\ a < (-2147483647 - 1) + b
    THEN [ovf |-> TRUE,
          val |-> (((a + 2147483647) + 1) - (b - 2147483647)) + 1]
    ELSE [ovf |-> FALSE, val |-> a - b]

\* Ringbuffer::iter
iter(self, offset) ==
    [panic |-> FALSE, index |-> AsI32(offset), step |-> 1]

\* reverse_iter starting one position too high
reverse_iter_from_len(self, offset, checks) ==
    LET d1 == SubI32(Len(self.line_pointers), AsI32(offset))
    IN [panic |-> checks /\ d1.ovf, index |-> d1.val, step |-> -1]

\* Ringbuffer::reverse_iter: len as i32 - offset as i32 - 1; with overflow
\* checks (checks = TRUE, the debug profile) an overflow panics
reverse_iter(self, offset, checks) ==
    LET d1 == SubI32(Len(self.line_pointers), AsI32(offset))
        d2 == SubI32(d1.val, 1)
    IN  [panic |-> checks /\ (d1.ovf \/ d2.ovf), index |-> d2.val,
         step |-> -1]

\* Iter::next: the iterator after the call and the item it returns
next(self, it, checks) ==
    LET i  == it.index
        ni == SubI32(i, 0 - it.step)
    IN  IF it.panic \/ (checks /\ ni.ovf)
        THEN [it |-> [it EXCEPT !.panic = TRUE], item |-> PanicItem]
        ELSE [it   |-> [it EXCEPT !.index = ni.val],
              item |-> IF i < 0 THEN NoneItem ELSE element(self, i)]

\* the items an iterator returns when next is called until it returns None
\* or panics, that last item included; at most fuel calls
RECURSIVE drain(_, _, _, _)
drain(self, it, checks, fuel) ==
    IF fuel = 0 THEN <<>>
    ELSE LET r == next(self, it, checks) IN
         IF r.item.kind = "Some"
         THEN <<r.item>> \o drain(self, r.it, checks, fuel - 1)
         ELSE <<r.item>>

\* the items n consecutive calls of next return
RECURSIVE next_n(_, _, _, _)
next_n(self, it, checks, n) ==
    IF n = 0 THEN <<>>
    ELSE LET r == next(self, it, checks) IN
         <<r.item>> \o next_n(self, r.it, checks, n - 1)

----------------------------------------------------------------------------
\* TerminalView::new without the records to render: the empty buffer, no
\* call of write_string or render yet, Cursor::new
InitView ==
    /\ buffer = new.buffer
    /\ line_pointers = new.line_pointers
    /\ wp = new.wp
    /\ skipped = new.skipped
    /\ stored = <<>>
    /\ pc = "idle"
    /\ text = <<>>
    /\ ws_free = 0
    /\ cursor = [col |-> 0, row |-> 0]
    /\ sink = <<>>
    /\ result = "None"
    /\ returned = "None"
    /\ scroll_offset = 0

Init ==
    /\ InitView
    /\ lines = <<>>

Install(self) ==
    /\ buffer' = self.buffer
    /\ line_pointers' = self.line_pointers
    /\ wp' = self.wp
    /\ skipped' = self.skipped

\* a call of try_add(bytes)
TryAdd ==
    \E bytes \in Inputs :
        LET r == try_add(Self, bytes) IN
        /\ Install(r.self)
        /\ stored' = IF r.ok THEN Append(stored, bytes) ELSE stored
        /\ UNCHANGED <<viewVars, renderVars>>

\* a call of add(bytes)
Add ==
    \E bytes \in Inputs :
        LET r == add(Self, bytes) IN
        /\ Install(r.self)
        /\ stored' = SubSeq(stored, r.pops + 1, Len(stored))
                        \o (IF r.ok THEN <<bytes>> ELSE <<>>)
        /\ UNCHANGED <<viewVars, renderVars>>

\* a call of pop()
Pop ==
    LET r == pop(Self) IN
    /\ Install(r.self)
    /\ stored' = IF r.popped THEN Tail(stored) ELSE stored
    /\ UNCHANGED <<viewVars, renderVars>>

Next == TryAdd \/ Add \/ Pop

Spec == Init /\ [][Next]_vars

----------------------------------------------------------------------------
\* TerminalView::write_string(s) over the buffer char_buffer of the view,
\* one action per step of its body

\* the texts handed to write_string
Texts == Inputs

bufferVars == <<buffer, line_pointers, wp, skipped, stored>>

\* the call and `let mut free = self.char_buffer.free()`
WsCall ==
    /\ pc \in {"idle", "done"}
    /\ \E s \in Texts : text' = s
    /\ ws_free' = free(Self)
    /\ pc' = "while"
    /\ UNCHANGED <<bufferVars, renderVars>>

\* the test of `while free < s.len()`
WsWhile ==
    /\ pc = "while"
    /\ pc' = IF ws_free < Len(text) THEN "pop" ELSE "add"
    /\ UNCHANGED <<text, ws_free>>
    /\ UNCHANGED <<bufferVars, renderVars>>

\* the body of the loop: char_buffer.pop(); free = char_buffer.free()
WsPop ==
    /\ pc = "pop"
    /\ LET r == pop(Self) IN
          /\ Install(r.self)
          /\ stored' = IF r.popped THEN Tail(stored) ELSE stored
          /\ ws_free' = free(r.self)
    /\ pc' = "while"
    /\ UNCHANGED <<text, renderVars>>

\* write_string that stores with try_add instead of add
WsTryAdd ==
    /\ pc = "add"
    /\ LET r == try_add(Self, text) IN
          /\ Install(r.self)
          /\ stored' = IF r.ok THEN Append(stored, text) ELSE stored
    /\ pc' = "done"
    /\ ws_free' = 0
    /\ UNCHANGED <<text, renderVars>>

\* char_buffer.add(s.as_bytes()) and the return of Ok(())
WsAdd ==
    /\ pc = "add"
    /\ LET r == add(Self, text) IN
          /\ Install(r.self)
          /\ stored' = SubSeq(stored, r.pops + 1, Len(stored))
                          \o (IF r.ok THEN <<text>> ELSE <<>>)
    /\ pc' = "done"
    /\ ws_free' = 0
    /\ UNCHANGED <<text, renderVars>>

WsStep == WsWhile \/ WsPop \/ WsAdd

NextView == WsCall \/ WsStep

\* a call, once made, runs on: the program is single-threaded and nothing
\* suspends write_string
SpecView == Init /\ [][NextView]_vars /\ WF_vars(WsStep)

----------------------------------------------------------------------------
\* Cursor, RenderEngine and Display of src/terminal.rs and src/display.rs.
\* A value R of the render engine is a record: cursor (col, row), sink (the
\* calls made on the interface of the display so far, each with the record
\* being rendered and whether it succeeded), status ("run", or "err" after
\* a failed call, or "panic"), fail (the number of the call that fails,
\* 0 for none) and rec (the number of the record being rendered, 0 during
\* clear).

\* DisplaySize::dimensions: the display of the source is 256 pixels wide and
\* 64 high (42 cells by 8); the model's is DisplayWidth wide, 8 cells, so
\* that short records reach the row edge, and as high as the source's
DisplayWidth == 48
DisplayHeight == 64

\* font.char_size() of Font6x8, the font of the terminal
CharWidth == 6
CharHeight == 8

\* the tabsize TerminalView::new passes to RenderEngine::new
TabSize == 4

\* the number of rows RenderEngine::clear writes
ClearRows == 64

\* Cursor::new: width and height of the grid
width == DisplayWidth \div CharWidth
height == DisplayHeight \div CharHeight

\* RenderEngine::new: num_lines
num_lines == DisplayHeight \div CharHeight

\* the bytes write_char treats specially, and the blank
NUL == 0
TAB == 9
LF == 10
CR == 13
SPACE == 32

min(a, b) == IF a <= b THEN a ELSE b

\* Cursor::advance: the cursor after the call and whether it wrapped
advance(cur) ==
    LET c == (cur.col + 1) % width IN
    [cursor |-> [cur EXCEPT !.col = c], wrap |-> c = 0]

\* Cursor::advance_line
advance_line(cur) == [col |-> 0, row |-> cur.row + 1]

\* Cursor::set_position
set_position(cur, col, row) ==
    [col |-> min(col, width - 1), row |-> min(row, height - 1)]

\* Cursor::get_line_box.  The subtractions are on usize: with overflow
\* checks (checks = TRUE, the debug profile) an underflow panics, without
\* them the value wraps; `as u8` keeps the low 8 bits, which for a wrapped
\* usize are those of the exact difference.
get_line_box(cur, offset, checks) ==
    LET x_end   == (width * CharWidth) \div 2
        d       == cur.row - offset
        y_start == (height - 1) * CharHeight - d * CharHeight
        y_end   == y_start + CharHeight
    IN  [panic |-> checks /\ (d < 0 \/ y_start < 0),
         start |-> <<0, y_start % 256>>,
         end   |-> <<x_end % 256, y_end % 256>>]

\* one call on the interface of the display (send_commands / send_data):
\* it is logged, and it fails when it is call number R.fail
send(R, op, a, b) ==
    IF R.status # "run" THEN R
    ELSE LET ok == Len(R.sink) + 1 # R.fail IN
         [R EXCEPT !.sink = Append(@, [op |-> op, a |-> a, b |-> b,
                                       rec |-> R.rec, ok |-> ok]),
                   !.status = IF ok THEN "run" ELSE "err"]

\* Display::set_draw_area: ColumnAddress(start.0, end.0 - 1), then
\* RowAddress(start.1, end.1 - 1); the subtractions are on u8
set_draw_area(R, start, end, checks) ==
    IF R.status # "run" THEN R
    ELSE IF checks /\ end[1] = 0 THEN [R EXCEPT !.status = "panic"]
    ELSE LET c == send(R, "col", start[1], (end[1] - 1) % 256) IN
         IF c.status # "run" THEN c
         ELSE IF checks /\ end[2] = 0 THEN [c EXCEPT !.status = "panic"]
         ELSE send(c, "row", start[2], (end[2] - 1) % 256)

\* Display::draw of one buffer; a names what the buffer holds (the byte
\* whose glyph it is, -1 for a row of zeros)
draw(R, a) == send(R, "data", a, 0)

\* n calls of draw with the same buffer, stopping at the first that fails
RECURSIVE draw_n(_, _, _)
draw_n(R, a, n) ==
    IF n = 0 \/ R.status # "run" THEN R ELSE draw_n(draw(R, a), a, n - 1)

\* clear that leaves the cursor where the last pass put it
clear_keep_cursor(R, checks) ==
    LET a == set_draw_area([R EXCEPT !.rec = 0], <<0, 0>>, <<128, 64>>, checks)
    IN  draw_n(a, -1, ClearRows)

\* RenderEngine::clear
clear(R, checks) ==
    LET a == set_draw_area([R EXCEPT !.rec = 0], <<0, 0>>, <<128, 64>>, checks)
        d == draw_n(a, -1, ClearRows)
    IN  IF d.status # "run" THEN d
        ELSE [d EXCEPT !.cursor = set_position(@, 0, 0)]

\* RenderEngine::draw_char
draw_char(R, chr) == draw(R, chr)

\* RenderEngine::write_char
write_char(R, chr) ==
    IF R.status # "run" THEN R
    ELSE IF chr = LF THEN [R EXCEPT !.cursor = advance_line(@)]
    ELSE IF chr = TAB THEN draw_n(R, SPACE, TabSize)
    ELSE IF chr = CR \/ chr = NUL THEN R
    ELSE draw_char(R, chr)

\* get_line_box(line_offset) followed by set_draw_area, as render_all
\* does at the start of a record and after every wrap
line_area(R, line_offset, checks) ==
    IF R.status # "run" THEN R
    ELSE LET box == get_line_box(R.cursor, line_offset, checks) IN
         IF box.panic THEN [R EXCEPT !.status = "panic"]
         ELSE set_draw_area(R, box.start, box.end, checks)

\* RenderEngine::render_all, the loop `for byte in line` from byte i on
\* (wrap is always true)
RECURSIVE render_bytes(_, _, _, _, _)
render_bytes(R, line, i, line_offset, checks) ==
    IF R.status # "run" \/ i > Len(line) \/ line[i] = NUL THEN R
    ELSE LET w == write_char(R, line[i]) IN
         IF w.status # "run" THEN w
         ELSE LET a == advance(w.cursor)
                  m == [w EXCEPT !.cursor = a.cursor]
              IN  IF a.wrap
                  THEN render_bytes(line_area(m, line_offset + 1, checks),
                                    line, i + 1, line_offset + 1, checks)
                  ELSE render_bytes(m, line, i + 1, line_offset, checks)

\* extra_lines calls of Cursor::advance_line
RECURSIVE advance_lines(_, _)
advance_lines(cur, n) ==
    IF n = 0 THEN cur ELSE advance_lines(advance_line(cur), n - 1)

\* RenderEngine::render_all, the body of `for line in lines` up to the
\* test of the cursor's row
render_line(R, line, checks) ==
    LET extra_lines == Len(line) \div width
        p == [R EXCEPT !.cursor = advance_lines(@, extra_lines)]
    IN  render_bytes(line_area(p, 0, checks), line, 1, 0, checks)

\* RenderEngine::render_all, the loop `for line in lines` from record k on
RECURSIVE render_lines(_, _, _, _)
render_lines(R, recs, k, checks) ==
    IF R.status # "run" \/ k > Len(recs) THEN R
    ELSE LET r == render_line([R EXCEPT !.rec = k], recs[k], checks) IN
         IF r.status = "run" /\ r.cursor.row >= num_lines THEN r
         ELSE render_lines(r, recs, k + 1, checks)

\* RenderEngine::render_all on an engine with the given cursor: the engine
\* at the end of the pass; status "run" stands for the return of Ok(())
render_all(cur, recs, fail, checks) ==
    LET R0 == [cursor |-> cur, sink |-> <<>>, status |-> "run",
               fail |-> fail, rec |-> 0]
    IN  render_lines(clear(R0, checks), recs, 1, checks)

\* the most records a render pass is handed
MaxLines == 3

\* the numbers of bytes before the optional line feed of a record: a short
\* record, one full row, all rows of the grid but one
LineLens == {2, width, (height - 1) * width}

\* the k-th record handed to a pass: n times the letter of position k
\* ("C" for the first, the newest), then a line feed if nl
Line(k, n, nl) ==
    [i \in 1..n |-> 68 - k] \o (IF nl THEN <<LF>> ELSE <<>>)

\* a record with a byte that write_char treats on its own (tab, carriage
\* return, NUL) between two letters
Special == { <<67, b, 67>> : b \in {TAB, CR, NUL} }

\* the sequences of m records of letters
Records(m) ==
    { [k \in 1..m |-> Line(k, f[k][1], f[k][2])] :
        f \in [1..m -> LineLens \X BOOLEAN] }

\* the sequences of records handed to a render pass: records of letters,
\* the first of them possibly a special one
RenderInputs ==
    {<<>>} \cup
    UNION { Records(m) \cup { [r EXCEPT ![1] = s] :
                                r \in Records(m), s \in Special } :
            m \in 1..MaxLines }

\* the calls on the interface that may fail: none (0), the first call of
\* clear, its last draw, and the first draw of a glyph after clear
FailPoints == {0, 1, ClearRows + 2, ClearRows + 5}

InitRender ==
    /\ InitView
    /\ lines \in RenderInputs

\* a call of TerminalView::render: render_all runs over the records, and
\* render drops what render_all returns
Render ==
    /\ returned # "Panic"
    /\ \E fail \in FailPoints : \E checks \in BOOLEAN :
          \E R \in {render_all(cursor, lines, fail, checks)} :
          /\ cursor' = R.cursor
          /\ sink' = R.sink
          /\ result' = CASE R.status = "run" -> "Ok"
                          [] R.status = "err" -> "Err"
                          [] OTHER -> "Panic"
          /\ returned' = IF R.status = "panic" THEN "Panic" ELSE "Unit"
    /\ UNCHANGED <<bufferVars, viewVars, lines, scroll_offset>>

NextRender == Render

SpecRender == InitRender /\ [][NextRender]_vars

----------------------------------------------------------------------------
\* The operations of Cursor, called in any order on the cursor of the
\* engine.  row is a usize: a value of 2^31 and above is kept as that value
\* minus 2^32, so that the row below 0 that move_down wraps to without
\* overflow checks is -1.  With overflow checks the subtraction below 0 and
\* the addition above the largest usize panic, and the call leaves no
\* cursor to look at.

\* the rows the cursor is followed to, upwards and (wrapped) downwards
MaxRow == 12

\* Cursor::move_up
move_up(cur) == [cur EXCEPT !.row = @ + 1]

\* Cursor::move_down
move_down(cur) == [cur EXCEPT !.row = @ - 1]

\* Cursor::get_position
get_position(cur) == <<cur.col, cur.row>>

cursorRest ==
    <<bufferVars, viewVars, lines, sink, result, returned, scroll_offset>>

CurSetPosition ==
    /\ \E col \in 0..(width + 1) : \E row \in 0..(height + 1) :
          cursor' = set_position(cursor, col, row)
    /\ UNCHANGED cursorRest

CurAdvance ==
    /\ cursor' = advance(cursor).cursor
    /\ UNCHANGED cursorRest

CurAdvanceLine ==
    /\ cursor.row < MaxRow
    /\ \E checks \in BOOLEAN :
          /\ ~(checks /\ cursor.row = -1)
          /\ cursor' = advance_line(cursor)
    /\ UNCHANGED cursorRest

CurMoveUp ==
    /\ cursor.row < MaxRow
    /\ \E checks \in BOOLEAN :
          /\ ~(checks /\ cursor.row = -1)
          /\ cursor' = move_up(cursor)
    /\ UNCHANGED cursorRest

CurMoveDown ==
    /\ cursor.row > 0 - MaxRow
    /\ \E checks \in BOOLEAN :
          /\ ~(checks /\ cursor.row = 0)
          /\ cursor' = move_down(cursor)
    /\ UNCHANGED cursorRest

NextCursor ==
    CurSetPosition \/ CurAdvance \/ CurAdvanceLine \/ CurMoveUp \/ CurMoveDown

SpecCursor == Init /\ [][NextCursor]_vars

----------------------------------------------------------------------------
\* The terminal view as its callers use it: write_string, set_scroll_offset
\* and render on one view.  lines, sink and result tell what the last call
\* did when that call was render, and are empty after any other call.

\* the texts written: one byte, a few bytes, as many as an empty buffer
\* takes
TermTexts == { [k \in 1..l |-> 1] : l \in {1, 3, N - 1} }

\* the scroll offsets set: the newest record, older ones, past the oldest
ScrollOffsets == 0..(K + 1)

\* the calls on the interface that may fail during a pass of the view
TermFailPoints == {0, 1}

\* TerminalView::write_string on the buffer self: the buffer when it
\* returns and the number of records popped by its loop and by add
RECURSIVE write_string(_, _, _)
write_string(self, s, pops) ==
    IF free(self) < Len(s)
    THEN write_string(pop(self).self, s,
                      pops + (IF pop(self).popped THEN 1 ELSE 0))
    ELSE LET r == add(self, s) IN
         [self |-> r.self, ok |-> r.ok, pops |-> pops + r.pops]

\* the last call was not render
NoPass ==
    /\ lines' = <<>>
    /\ sink' = <<>>
    /\ result' = "None"
    /\ returned' = "None"

\* a call of write_string that returns (a text longer than the free space
\* of an empty buffer keeps its loop running for ever)
TvWriteString ==
    /\ returned # "Panic"
    /\ \E s \in TermTexts :
          /\ Len(s) <= free(new)
          /\ LET r == write_string(Self, s, 0) IN
                /\ Install(r.self)
                /\ stored' = SubSeq(stored, r.pops + 1, Len(stored))
                                \o (IF r.ok THEN <<s>> ELSE <<>>)
    /\ NoPass
    /\ UNCHANGED <<viewVars, cursor, scroll_offset>>

\* TerminalView::set_scroll_offset
TvSetScrollOffset ==
    /\ returned # "Panic"
    /\ \E offset \in ScrollOffsets : scroll_offset' = offset
    /\ NoPass
    /\ UNCHANGED <<bufferVars, viewVars, cursor>>

\* the bytes of the items of a sequence of items that are records
RecordsOf(items) ==
    LET some == SelectSeq(items, LAMBDA it : it.kind = "Some")
    IN  [k \in 1..Len(some) |-> some[k].bytes]

\* TerminalView::render: render_all pulls the records from
\* char_buffer.reverse_iter(scroll_offset) one by one; a panic of the
\* iterator comes after the records before it are drawn, unless the pass
\* has left its loop by then
TvRender ==
    /\ returned # "Panic"
    /\ \E fail \in TermFailPoints : \E checks \in BOOLEAN :
          \E items \in {drain(Self,
                              reverse_iter(Self, Usize(scroll_offset), checks),
                              checks, K + 1)} :
          \E R \in {render_all(cursor, RecordsOf(items), fail, checks)} :
          LET paniced == \/ R.status = "panic"
                         \/ /\ R.status = "run"
                            /\ R.cursor.row < num_lines
                            /\ Len(items) > 0
                            /\ items[Len(items)].kind = "Panic"
          IN  /\ lines' = RecordsOf(items)
              /\ cursor' = R.cursor
              /\ sink' = R.sink
              /\ result' = IF paniced THEN "Panic"
                           ELSE IF R.status = "err" THEN "Err" ELSE "Ok"
              /\ returned' = IF paniced THEN "Panic" ELSE "Unit"
    /\ UNCHANGED <<bufferVars, viewVars, scroll_offset>>

NextTerminal == TvWriteString \/ TvSetScrollOffset \/ TvRender

SpecTerminal == Init /\ [][NextTerminal]_vars

----------------------------------------------------------------------------
\* what the callers can observe

len == Len(line_pointers)

\* the bytes element returns for each live record, oldest first
\* (<<-1>> stands for a call that does not return a span)
Live ==
    [i \in 1..len |->
        LET e == element(Self, i - 1) IN
        IF e.kind = "Some" THEN e.bytes ELSE <<-1>>]

\* Live for a buffer value other than the current one
LiveOf(self) ==
    [i \in 1..Len(self.line_pointers) |->
        LET e == element(self, i - 1) IN
        IF e.kind = "Some" THEN e.bytes ELSE <<-1>>]

\* the arena offsets that hold the bytes stored for live record i
\* (1 = oldest), as try_add wrote them
Stored(i) == { (line_pointers[i] + j) % N : j \in 0..(Len(stored[i]) - 1) }

\* the arena offsets that hold the bytes of some live record
Occupied == UNION { Stored(i) : i \in 1..len }

\* the arena offsets passed when going cyclically from offset a up to, but
\* not including, offset b
Between(a, b) ==
    IF a <= b THEN a..(b - 1) ELSE (a..(N - 1)) \cup (0..(b - 1))

\* the sum of the lengths of the spans element returns for indices 0..n-1
RECURSIVE SpanSum(_)
SpanSum(n) ==
    IF n = 0 THEN 0
    ELSE LET e == element(Self, n - 1) IN (e.end - e.start) + SpanSum(n - 1)

\* what a call can add to the live records: nothing, or the one record an
\* add / try_add stores
News == {<<>>} \cup { <<b>> : b \in Inputs }

----------------------------------------------------------------------------
\* what a render pass shows

\* the bytes of a record that have a glyph of their own
Visible(line) == SelectSeq(line, LAMBDA b : b \notin {NUL, TAB, LF, CR})

\* a row of cells with cell p (counted from 1) overwritten by glyph c
Put(cells, p, c) ==
    IF p <= Len(cells) THEN [cells EXCEPT ![p] = c] ELSE Append(cells, c)

\* the glyphs in each row of the grid (0 is the top row) after the calls
\* i.. of sink, when F holds the rows before them and the draw area stands
\* in row g at cell p; a row address starts a row at its first cell
RECURSIVE frame(_, _, _, _)
frame(F, i, g, p) ==
    IF i > Len(sink) THEN F
    ELSE LET e == sink[i] IN
         IF e.ok /\ e.op = "row"
         THEN frame(F, i + 1, e.a \div CharHeight, 1)
         ELSE IF e.ok /\ e.op = "data" /\ e.a >= 0 /\ g \in 0..(height - 1)
         THEN frame([F EXCEPT ![g] = Put(@, p, e.a)], i + 1, g, p + 1)
         ELSE frame(F, i + 1, g, p)

\* the rows of the grid after a pass that got past clear: clear has blanked
\* them all with its 2 + ClearRows calls, the calls after it draw glyphs
Frame == frame([g \in 0..(height - 1) |-> <<>>], ClearRows + 3, -1, 1)

\* the rows of the grid, counted from the bottom row 0 as the cursor counts
\* them, that a draw area set for record k covers
AreaRows(k) ==
    { height - 1 - (sink[i].a \div CharHeight) :
        i \in { i \in 1..Len(sink) : sink[i].op = "row" /\ sink[i].rec = k } }

\* ceil(l / w)
CeilDiv(l, w) == (l + w - 1) \div w

\* the row, counted from the bottom, on which record k of lines starts when
\* every record before it takes ceil(L / width) rows
RECURSIVE BaseRow(_)
BaseRow(k) ==
    IF k = 1 THEN 0
    ELSE BaseRow(k - 1) + CeilDiv(Len(lines[k - 1]), width)

----------------------------------------------------------------------------
\* C1: in every reachable state free() plus the sum of the lengths of the
\* spans element(i) returns for the live records is at most N - 1.
C1_FreePlusSpans == free(Self) + SpanSum(len) <= N - 1

\* C2: for every index i below the number of live records, element(i)
\* returns exactly the bytes passed to the call that created the i-th oldest
\* live record.
C2_ElementReturnsStored ==
    \A i \in 1..len :
        LET e == element(Self, i - 1) IN
        e.kind = "Some" /\ e.bytes = stored[i]

\* C3: a try_add that returns Err(NoSpace) leaves wp, skipped, the record
\* index and the arena as they were before the call.
C3_FailedTryAddKeepsState ==
    \A b \in Inputs :
        LET r == try_add(Self, b) IN
        ~r.ok => r.self = Self

\* C4: try_add(bytes) returns Ok exactly when bytes.len() <= free() and the
\* record index holds fewer than K entries, and Err(NoSpace) otherwise.
C4_TryAddOkIff ==
    \A b \in Inputs :
        try_add(Self, b).ok <=> (Len(b) <= free(Self) /\ len < K)

\* the index is full and try_add refuses bytes that would fit
C4_Witness ==
    /\ len = K
    /\ \E b \in Inputs :
          Len(b) > 0 /\ Len(b) <= free(Self) /\ ~try_add(Self, b).ok

\* C5: add(bytes) with at most N - 1 bytes ends with bytes stored as the
\* newest live record.
C5_AddStoresNewest ==
    \A b \in Inputs :
        Len(b) <= N - 1 =>
            LET r == add(Self, b)
                n == Len(r.self.line_pointers)
            IN  /\ r.ok
                /\ n > 0
                /\ element(r.self, n - 1).kind = "Some"
                /\ element(r.self, n - 1).bytes = b

\* an add has to evict at least two records before its bytes are stored
C5_Witness ==
    \E b \in Inputs :
        Len(b) > 0 /\ Len(b) <= N - 1 /\ add(Self, b).ok /\ add(Self, b).pops >= 2

\* C6: the live records, read oldest to newest, are a contiguous suffix of
\* the records ever stored: every call leaves a suffix of the records that
\* were readable before it, followed by the record it stored, if any.
C6_LiveIsSuffix ==
    [][\E k \in 0..len : \E news \in News :
          Live' = SubSeq(Live, k + 1, len) \o news]_vars

\* C7: with at least one live record, the first item of reverse_iter(0) is
\* the most recently stored record.
C7_NewestFirst ==
    len > 0 =>
        \A checks \in BOOLEAN :
            LET r == next(Self, reverse_iter(Self, Usize(0), checks), checks) IN
            r.item.kind = "Some" /\ r.item.bytes = stored[Len(stored)]

\* wp lies below the newest record: a try_add refused by the full index
\* has moved it to offset 0
C7_Witness ==
    /\ len > 0
    /\ wp < line_pointers[len]
    /\ Len(stored[len]) > 0

\* C8: for every valid index the span of element(i) has start <= end <= N,
\* and the bytes written for the record lie in one range before the
\* physical end of the arena.
C8_SpanInsideArena ==
    \A i \in 0..(len - 1) :
        /\ line_pointers[i + 1] <= element_end(Self, i)
        /\ element_end(Self, i) <= N
        /\ line_pointers[i + 1] + Len(stored[i + 1]) <= N

\* the layout is wrapped: a record at offset 0 was stored behind a tail gap
\* and an older non-empty record still lies above wp
C8_Witness ==
    /\ len >= 2
    /\ skipped > 0
    /\ wp < Head(line_pointers)
    /\ line_pointers[len] = 0
    /\ Len(stored[1]) > 0 /\ Len(stored[len]) > 0

\* C9: element(index) returns None for every index >= the number of live
\* records, and iter(offset) / reverse_iter(offset) with such an offset
\* yield no item.
C9_OutOfRangeIsEmpty ==
    \A o \in len..(K + 1) :
        /\ element(Self, o) = NoneItem
        /\ \A checks \in BOOLEAN :
              /\ drain(Self, iter(Self, Usize(o)), checks, K + 2) = <<NoneItem>>
              /\ drain(Self, reverse_iter(Self, Usize(o), checks), checks, K + 2)
                    = <<NoneItem>>

\* C10: for any offset <= len, iter(offset) yields element(offset), ...,
\* element(len - 1) in that order and then returns None.
C10_IterForward ==
    \A o \in 0..len :
        \A checks \in BOOLEAN :
            drain(Self, iter(Self, Usize(o)), checks, K + 2)
                = [i \in 1..(len - o) |-> element(Self, o + i - 1)]
                    \o <<NoneItem>>

\* C11: for any offset k below the number of live records, reverse_iter(k)
\* skips the k newest records and yields the records at logical positions
\* len - 1 - k, ..., 0 in that order, and returns None on every later call.
C11_ReverseIter ==
    \A k \in 0..(len - 1) :
        \A checks \in BOOLEAN :
            LET items == next_n(Self, reverse_iter(Self, Usize(k), checks),
                                checks, K + 3)
            IN \A j \in 1..(K + 3) :
                  IF j <= len - k
                  THEN /\ items[j].kind = "Some"
                       /\ items[j] = element(Self, len - k - j)
                  ELSE items[j] = NoneItem

\* the index is full and the layout is wrapped, so an offset in the middle
\* skips records and still yields some
C11_Witness ==
    /\ len = K
    /\ wp < Head(line_pointers)
    /\ next(Self, reverse_iter(Self, Usize(1), TRUE), TRUE).item.kind = "Some"

\* C12: add(bytes) with bytes.len() > N - 1 evicts every live record and
\* stores nothing: the buffer ends empty with wp = 0 and free() = N - 1;
\* try_add of the same bytes fails with NoSpace and evicts nothing.
C12_OversizedAddEmpties ==
    \A b \in Inputs :
        Len(b) > N - 1 =>
            LET a == add(Self, b)
                t == try_add(Self, b)
            IN  /\ ~a.ok
                /\ a.pops = len
                /\ a.self.line_pointers = <<>>
                /\ a.self.wp = 0
                /\ free(a.self) = N - 1
                /\ ~t.ok
                /\ t.self = Self

\* an oversized add meets a buffer holding several records
C12_Witness ==
    /\ len >= 2
    /\ wp > 0
    /\ \E b \in Inputs : Len(b) > N - 1 /\ add(Self, b).pops >= 2

\* C13: free() is N - 1 on an empty buffer, max(N - wp, oldest_start) - 1
\* when wp >= oldest_start and oldest_start - wp - 1 when wp < oldest_start;
\* for N = 8 the calls add([1,2,3,4]), add([5,6]), pop(), add([7,8,9])
\* observe free() = 3, 1, 3, 0 and a following try_add([7,8]) fails.
C13_Free ==
    /\ free(Self) =
          IF len = 0 THEN N - 1
          ELSE IF wp >= Head(line_pointers)
               THEN max(N - wp, Head(line_pointers)) - 1
               ELSE Head(line_pointers) - wp - 1
    /\ N = 8 =>
          LET s1 == add(new, <<1, 2, 3, 4>>).self
              s2 == add(s1, <<5, 6>>).self
              s3 == pop(s2).self
              s4 == add(s3, <<7, 8, 9>>).self
          IN  /\ free(s1) = 3
              /\ free(s2) = 1
              /\ free(s3) = 3
              /\ free(s4) = 0
              /\ ~try_add(s4, <<7, 8>>).ok

\* the state the four calls of the scenario end in: the 3-byte record
\* wrapped to offset 0 and wp stands right below the oldest record
C13_Witness ==
    /\ N = 8
    /\ line_pointers = <<4, 0>>
    /\ wp = 3
    /\ skipped = 2
    /\ free(Self) = 0
    /\ \E b \in Inputs : Len(b) = 2 /\ ~try_add(Self, b).ok

\* C14: pop() on an empty buffer returns false and changes nothing; on a
\* non-empty buffer it returns true, removes exactly the oldest record and
\* leaves the order and the bytes of every other live record unchanged; when
\* it removes the last record, wp is reset to 0 so that free() is N - 1.
C14_Pop ==
    LET r == pop(Self) IN
    IF len = 0
    THEN ~r.popped /\ r.self = Self
    ELSE /\ r.popped
         /\ r.self.line_pointers = Tail(line_pointers)
         /\ r.self.buffer = buffer
         /\ LiveOf(r.self) = Tail(Live)
         /\ len = 1 => (r.self.wp = 0 /\ free(r.self) = N - 1)

\* the oldest record lies above wp and above the record that becomes the
\* oldest, and a third record stays behind it
C14_Witness ==
    /\ len >= 3
    /\ wp < Head(line_pointers)
    /\ line_pointers[2] < Head(line_pointers)
    /\ pop(Self).popped

\* C15: write_string terminates for every input text and every reachable
\* buffer state, including a text longer than N - 1 bytes and an already
\* empty buffer.
C15_WriteStringTerminates == (pc = "while") ~> (pc = "done")

\* C16: after write_string of a text of at most N - 1 bytes, in any
\* reachable buffer state including a full record index, the text is the
\* newest live record (the first item of reverse_iter(0)); only older
\* records may have been evicted.
C16_WriteStringStoresNewest ==
    /\ [](pc = "done" /\ Len(text) <= N - 1 =>
            /\ len > 0
            /\ stored[len] = text
            /\ \A checks \in BOOLEAN :
                  LET r == next(Self, reverse_iter(Self, Usize(0), checks),
                                checks)
                  IN r.item.kind = "Some" /\ r.item.bytes = text)
    /\ [][\E k \in 0..len :
             LET kept == SubSeq(line_pointers, k + 1, len) IN
             \/ line_pointers' = kept
             \/ /\ pc = "add"
                /\ Len(line_pointers') = Len(kept) + 1
                /\ SubSeq(line_pointers', 1, Len(kept)) = kept]_vars

\* write_string has returned with its text stored in a full record index
\* from which older records are gone, although bytes are still free
C16_Witness ==
    /\ pc = "done"
    /\ len = K
    /\ Len(text) > 0
    /\ Head(line_pointers) > 0
    /\ wp = line_pointers[len] + Len(text)
    /\ free(Self) > 0


\* C17: when a call on the interface of the display fails during a render
\* pass, the pass stops at that call without retrying and the same error is
\* returned to the caller of TerminalView::render.
C17_ErrorReturned ==
    \A i \in 1..Len(sink) :
        ~sink[i].ok =>
            /\ i = Len(sink)
            /\ result = "Err"
            /\ returned = "Err"

\* C18: rendering fills the grid bottom-up, newest first: when every
\* rendered record fits in one row, the k-th record the iterator yields is
\* drawn on grid row height - 1 - k and every other row is blank (AA, BB,
\* CC appended and rendered at offset 0 show CC, BB, AA on rows height - 1,
\* height - 2, height - 3).
C18_BottomUp ==
    (/\ returned = "Unit"
     /\ result = "Ok"
     /\ \A k \in 1..Len(lines) : Len(Visible(lines[k])) <= width)
    => \A g \in 0..(height - 1) :
          Frame[g] = IF height - g <= Len(lines)
                     THEN Visible(lines[height - g])
                     ELSE <<>>

\* C19: with wrapping, a record of length L on a grid of width W occupies
\* exactly ceil(L / W) rows and the next (older) record starts on the row
\* directly above it: no row is overlapped and no row is left unused.
C19_RowsPerRecord ==
    (/\ returned = "Unit"
     /\ result = "Ok"
     /\ BaseRow(Len(lines) + 1) <= height)
    => \A k \in 1..Len(lines) :
          AreaRows(k) = BaseRow(k)..(BaseRow(k + 1) - 1)

\* C20: a render pass stops once the cursor's row reaches the number of
\* grid rows: every draw area lies inside the pixel area (its rows within
\* the display's, computed without arithmetic underflow), and older records
\* that do not fit are skipped without error or panic.
C20_AreasInside ==
    (/\ returned # "None"
     /\ \A i \in 1..Len(sink) : sink[i].ok)
    => /\ returned = "Unit"
       /\ result = "Ok"
       /\ \A i \in 1..Len(sink) :
             sink[i].op = "row" =>
                 /\ sink[i].a <= sink[i].b
                 /\ sink[i].b < DisplayHeight

\* C21: in every reachable state wp is less than N, lies outside the
\* stored byte range of every live non-empty record, and is cyclically at
\* or after the end of the newest record (no stored byte lies between that
\* end and wp).
C21_WpOutsideRecords ==
    /\ wp \in 0..(N - 1)
    /\ wp \notin Occupied
    /\ len > 0 =>
          LET newest_end == (line_pointers[len] + Len(stored[len])) % N
          IN  Between(newest_end, wp) \cap Occupied = {}

\* wp has jumped to offset 0 behind a tail gap while records lie above it
C21_Witness ==
    /\ len >= 2
    /\ skipped > 0
    /\ wp > 0
    /\ wp < Head(line_pointers)
    /\ Len(stored[len]) > 0
    /\ line_pointers[len] + Len(stored[len]) = wp

\* C22: Cursor::advance moves the cursor one column to the right; when it
\* crosses the right edge it wraps to column 0, increments the row modulo
\* height and reports a wrap; otherwise the row is unchanged and no wrap is
\* reported.
C22_Advance ==
    cursor.row \in 0..(height - 1) =>
        LET a == advance(cursor) IN
        IF cursor.col = width - 1
        THEN /\ a.cursor.col = 0
             /\ a.cursor.row = (cursor.row + 1) % height
             /\ a.wrap
        ELSE /\ a.cursor.col = cursor.col + 1
             /\ a.cursor.row = cursor.row
             /\ ~a.wrap

\* C23: after any sequence of cursor operations (set_position, advance,
\* advance_line, move_up, move_down) the position get_position reports has
\* 0 <= col < width and 0 <= row < height.
C23_PositionInGrid ==
    /\ get_position(cursor)[1] \in 0..(width - 1)
    /\ get_position(cursor)[2] \in 0..(height - 1)

\* the buffers drawn for record k in a pass, in the order of the calls
DrawnOf(k) ==
    LET d == SelectSeq(sink, LAMBDA e : e.op = "data" /\ e.rec = k)
    IN  [i \in 1..Len(d) |-> d[i].a]

\* n blank cells
Blanks(n) == [i \in 1..n |-> SPACE]

\* C24: while a record is rendered, a tab byte produces tabsize blank cells
\* and moves the cursor by that many columns; carriage-return and NUL bytes
\* are skipped (they draw nothing and occupy no cell, and the bytes after
\* them are still rendered); a newline byte starts a new line.  Checked on
\* a pass over one record, "C", the byte, "C" or "CC" and a newline.
C24_SpecialBytes ==
    (/\ returned = "Unit"
     /\ result = "Ok"
     /\ Len(lines) = 1)
    => /\ lines[1] = <<67, TAB, 67>> =>
             /\ DrawnOf(1) = <<67>> \o Blanks(TabSize) \o <<67>>
             /\ cursor = [col |-> 2 + TabSize, row |-> 0]
       /\ lines[1] \in {<<67, CR, 67>>, <<67, NUL, 67>>} =>
             /\ DrawnOf(1) = <<67, 67>>
             /\ cursor = [col |-> 2, row |-> 0]
       /\ lines[1] = <<67, 67, LF>> =>
             /\ DrawnOf(1) = <<67, 67>>
             /\ cursor.row = 1

\* C25: in the sequence of calls a render pass makes on the interface of
\* the display, every bitmap transfer (send_data) is preceded by its own
\* addressing call (column range, then row range): no two bitmap transfers
\* follow one another without an addressing call between them.
C25_AddressedTransfers ==
    \A i \in 1..Len(sink) :
        sink[i].op = "data" =>
            /\ i >= 3
            /\ sink[i - 2].op = "col"
            /\ sink[i - 1].op = "row"

\* the calls of RenderEngine::clear: one draw area over the whole pixel
\* area, then ClearRows rows of zeros
ClearCalls ==
    <<[op |-> "col", a |-> 0, b |-> 127, rec |-> 0, ok |-> TRUE],
      [op |-> "row", a |-> 0, b |-> DisplayHeight - 1, rec |-> 0, ok |-> TRUE]>>
    \o [i \in 1..ClearRows |->
          [op |-> "data", a |-> -1, b |-> 0, rec |-> 0, ok |-> TRUE]]

\* a step of the view that is a call of render
RenderStep == returned' # "None"

\* C26: every render pass resets the cursor to (0, 0) and clears the whole
\* pixel area first, so the calls of a pass depend only on the content of
\* the buffer and on the scroll offset: a call of render that follows a
\* call of render, with no write_string or set_scroll_offset between them,
\* makes the same calls on the display, and render changes neither the
\* buffer nor the scroll offset.
C26_RenderRepeats ==
    /\ [](result = "Ok" => SubSeq(sink, 1, ClearRows + 2) = ClearCalls)
    /\ [][RenderStep =>
            /\ UNCHANGED <<bufferVars, scroll_offset>>
            /\ (result = "Ok" /\ result' = "Ok") =>
                   (sink' = sink /\ lines' = lines)]_vars

\* a pass over two records at a scroll offset above 0 has left the cursor
\* away from (0, 0): the next pass starts from there
C26_Witness ==
    /\ result = "Ok"
    /\ scroll_offset > 0
    /\ Len(lines) = 2
    /\ len = Len(lines) + scroll_offset
    /\ cursor # [col |-> 0, row |-> 0]

\* the sizes wrap_wp is called with: try_add passes the length of a record
\* that is no longer than free(), and free() is less than N
Sizes == 0..(N - 1)

\* C27 as stated: wrap_wp(size) moves wp to 0 and sets skipped to
\* N - wp_old exactly when wp >= oldest_start and the tail space N - wp is
\* smaller than size; when wp >= oldest_start and size <= N - wp, or when
\* wp < oldest_start, it leaves wp and skipped unchanged.
C27_WrapWp ==
    \A size \in Sizes :
        LET r == wrap_wp(Self, size) IN
        IF wp >= first_index(Self) /\ N - wp < size
        THEN r.wp = 0 /\ r.skipped = N - wp
        ELSE r.wp = wp /\ r.skipped = skipped

\* C27 amended: wrap_wp(size) moves wp to 0 and sets skipped to N - wp_old
\* exactly when wp >= oldest_start and the tail space less one byte,
\* N - wp - 1, is smaller than size; otherwise it leaves wp and skipped
\* unchanged.  It never changes the arena or the index.
C27_WrapWpAmended ==
    \A size \in Sizes :
        LET r == wrap_wp(Self, size) IN
        /\ IF wp >= first_index(Self) /\ N - wp - 1 < size
           THEN r.wp = 0 /\ r.skipped = N - wp
           ELSE r.wp = wp /\ r.skipped = skipped
        /\ r.buffer = buffer
        /\ r.line_pointers = line_pointers

\* the newest record was stored at offset 0 by a try_add whose wrap_wp
\* found exactly as many bytes up to the end of the arena as the record
\* has: the older record ends where the skipped bytes begin
C27_Witness ==
    /\ len = 2
    /\ line_pointers[1] > 0
    /\ line_pointers[2] = 0
    /\ skipped = Len(stored[2])
    /\ skipped > 0
    /\ wp = skipped
    /\ line_pointers[1] + Len(stored[1]) + skipped = N

\* C28: skipped is nonzero only while a tail gap is in use: in every state
\* reachable by add, try_add and pop, skipped # 0 implies that some live
\* record starts at an offset greater than wp (the layout is wrapped); once
\* a pop makes the new oldest start less than the evicted start, and
\* whenever the buffer is empty, skipped is 0.
C28_SkippedOnlyWhenWrapped ==
    /\ skipped # 0 => \E i \in 1..len : line_pointers[i] > wp
    /\ len = 0 => skipped = 0
    /\ (len >= 2 /\ line_pointers[2] < line_pointers[1])
          => pop(Self).self.skipped = 0

\* C29: add(bytes) terminates from every reachable state and for every
\* input: its loop makes at most (number of live records + 1) calls of
\* try_add, because each refused call is followed by a pop that removes
\* one record or, on an empty index, ends the loop.
C29_AddAttempts ==
    \A b \in Inputs :
        LET r == add(Self, b) IN
        /\ r.tries <= len + 1
        /\ r.tries = r.pops + 1
        /\ Len(r.self.line_pointers) = len - r.pops + (IF r.ok THEN 1 ELSE 0)
        /\ ~r.ok => Len(r.self.line_pointers) = 0

\* with two or more live records, some input is stored only after every
\* record has been popped, and some input is refused len + 1 times
C29_Witness ==
    /\ len >= 2
    /\ \E b \in Inputs : add(Self, b).ok /\ add(Self, b).tries = len + 1
    /\ \E b \in Inputs : ~add(Self, b).ok /\ add(Self, b).tries = len + 1

\* the arena offsets start, start + 1, .. of a record of n bytes
Range(start, n) == { start + j : j \in 0..(n - 1) }

\* C30: a successful try_add (directly or inside add) writes only to arena
\* offsets that belong to no live record: the range [start, start + len)
\* of the new record lies in the arena and is disjoint from the stored
\* byte range of every record that is live after the call, so the stored
\* byte ranges of the live records are pairwise disjoint in every
\* reachable state.
C30_RangesDisjoint ==
    /\ \A i \in 1..len : \A j \in 1..len :
          i # j => Stored(i) \cap Stored(j) = {}
    /\ \A b \in Inputs :
          LET r     == try_add(Self, b)
              lp    == r.self.line_pointers
              start == lp[Len(lp)]
          IN  r.ok =>
                /\ Range(start, Len(b)) \subseteq 0..(N - 1)
                /\ Range(start, Len(b)) \cap Occupied = {}
                /\ \A o \in 0..(N - 1) :
                      o \notin Range(start, Len(b))
                          => r.self.buffer[o + 1] = buffer[o + 1]

\* a wrapped layout, wp below the oldest record, in which try_add stores a
\* record of two or more bytes between the newest and the oldest record
C30_Witness ==
    /\ len >= 2
    /\ wp < line_pointers[1]
    /\ Len(stored[1]) > 0
    /\ Len(stored[len]) > 0
    /\ \E b \in Inputs : Len(b) >= 2 /\ try_add(Self, b).ok

\* C31: an add or try_add that stores a record without evicting anything
\* leaves every previously live record unchanged as seen through element:
\* for each record live before the call, element returns the same bytes
\* before and after the call, also when the call wraps the write pointer
\* to offset 0.
C31_StoreKeepsRecords ==
    \A b \in Inputs :
        /\ LET r == try_add(Self, b) IN
           r.ok => \A i \in 0..(len - 1) :
                      element(r.self, i) = element(Self, i)
        /\ LET r == add(Self, b) IN
           (r.ok /\ r.pops = 0) => \A i \in 0..(len - 1) :
                      element(r.self, i) = element(Self, i)

\* usize offsets around the values where the cast to i32 changes sign:
\* small ones, 2^31 - 1, 2^31, 2^31 + 1, 2^32 - 2 and 2^32 - 1 among them
Offsets32 ==
    { [hi |-> h, lo |-> l] : h \in {0, 32767, 32768, 65535},
                             l \in (0..(K + 1)) \cup {65534, 65535} }

\* the usize offset u is at least the number of live records
AtLeastLen(u) == u.hi > 0 \/ u.lo >= len

\* an addition or subtraction on i32 overflows, which panics when overflow
\* checks are compiled in, in reverse_iter or in the first call of next on
\* the iterator it
ArithmeticPanic(it, checks) ==
    it.panic \/ (checks /\ SubI32(it.index, 0 - it.step).ovf)

\* C32: reverse_iter(offset) computes its start index in signed 32-bit
\* arithmetic (len - offset - 1 after casting offset to i32); for every
\* unsigned offset >= the number of live records, including offsets of
\* 2^31 and above whose cast is negative (such as 2^32 - 1), the iterator
\* yields no item and does not index the record table out of range: unless
\* the 32-bit arithmetic itself panics, the first call of next returns
\* None.
C32_LargeOffsets ==
    \A u \in Offsets32 :
        AtLeastLen(u) =>
            \A checks \in BOOLEAN :
                LET it == reverse_iter(Self, u, checks) IN
                \/ ArithmeticPanic(it, checks)
                \/ next(Self, it, checks).item = NoneItem

====
